---- MODULE Spec2Model ----
(***************************************************************************)
(* A model of the openai-proxy repository: the Express servers that        *)
(* forward a client request to the upstream chat-completion API, and the   *)
(* helper functions (sanitizer, validator, translator) of the enhanced     *)
(* server.                                                                 *)
(*                                                                         *)
(* The repository holds several variants of the server, each a complete    *)
(* program of its own:                                                     *)
(*   "index"    src/index.js            plain proxy with a request id      *)
(*   "part_000" src/unnamed/part_000    proxy with the two deadline timers *)
(*   "part_001" src/unnamed/part_001    proxy validating request and reply *)
(*   "part_003" src/unnamed/part_003    enhanced proxy (custom parser,     *)
(*                                      sanitizer, validator, translator)  *)
(* One behaviour of Spec is the life of one inbound request in one of      *)
(* them.  Requests share no state, so one request is the whole story.      *)
(***************************************************************************)
EXTENDS Integers, Sequences, FiniteSets, TLC

(***************************************************************************)
(* Program constants and the bounded input sets.                           *)
(***************************************************************************)
Servers == {"index", "part_000", "part_001", "part_003"}

\* the logical paths a request may name (req.params[0] / last path segment)
Paths == {"chat/completions", "workout-plan", "meal-plan"}

\* what the client put in the request body:
\*   "messages"   valid JSON, with a messages array
\*   "nomessages" valid JSON, without a messages array
\*   "malformed"  non-empty text that is not JSON, such as {invalid:json}
\*   "empty"      no body at all
\*   "oversize"   a body larger than the body parser's limit
BodyKinds == {"messages", "nomessages", "malformed", "empty", "oversize"}

\* statuses the upstream may answer with
UpstreamStatuses == {200, 429}

\* what the upstream's reply body holds:
\*   "completion"   a JSON object with a non-empty choices array
\*   "nochoices"    a JSON object with an empty choices array
\*   "errorobject"  a JSON object without choices (an upstream error body)
\*   "notjson"      text that is not JSON
UpstreamBodies == {"completion", "nochoices", "errorobject", "notjson"}

NoId == 0

\* MAX_LOG_LENGTH: the most characters of a response that are to be logged
MAX_LOG_LENGTH == 1000

\* the sizes, in characters, of the upstream's reply body
UpstreamSizes == {MAX_LOG_LENGTH, MAX_LOG_LENGTH + 1}

VARIABLES
  server,        \* which program runs
  req,           \* the inbound request: [path, body]
  pc,            \* where the request is in the middleware chain / handler
  nextUuid,      \* uuidv4(): the next fresh identity
  uuids,         \* every identity generated for this request
  headerId,      \* req.headers['x-request-id']
  handlerId,     \* the handler's own const requestId
  parsed,        \* req.body after the body parser
  log,           \* the entries written by log(requestId, type, ...)
  resTimer,      \* the res.setTimeout timer
  abortTimer,    \* the handler's setTimeout(() => controller.abort())
  aborted,       \* controller.signal.aborted
  upstream,      \* the upstream response once fetch resolved: [status, body]
  upstreamCalls, \* the fetch calls issued: sequence of [url, body]
  writes,        \* every res.status(..).json/send(..) call, in order
  unhandled,     \* an exception escaped the async handler
  settled,       \* the upstream call settled by itself (not by the abort)
  fn,            \* the helper function applied ("none" while a request runs)
  arg,           \* its arguments
  out            \* its result: <<>> before the call, <<result>> after it

vars == <<server, req, pc, nextUuid, uuids, headerId, handlerId, parsed, log,
          resTimer, abortTimer, aborted, upstream, upstreamCalls, writes,
          unhandled, settled, fn, arg, out>>

\* the variables of a request, and those of a helper function's application
reqVars == <<server, req, pc, nextUuid, uuids, headerId, handlerId, parsed, log,
             resTimer, abortTimer, aborted, upstream, upstreamCalls, writes,
             unhandled, settled>>
fnVars == <<fn, arg, out>>

NoUpstream == [status |-> 0, body |-> "none", size |-> 0]

(***************************************************************************)
(* Response bodies.  An error body is an object {error: {...}} described   *)
(* by the set of fields it has and the values of type, code and requestId; *)
(* part_001 writes {error: "<text>"} (shape "errorstring"), Express's own  *)
(* final handler writes an HTML page (shape "html"), and a success body is *)
(* the upstream's data (shape "data").                                     *)
(***************************************************************************)
ErrorBody(fields, type, code, rid) ==
  [shape |-> "error", fields |-> fields, type |-> type, code |-> code,
   requestId |-> rid, data |-> "none"]

ErrorString ==
  [shape |-> "errorstring", fields |-> {}, type |-> "none", code |-> "none",
   requestId |-> NoId, data |-> "none"]

HtmlBody ==
  [shape |-> "html", fields |-> {}, type |-> "none", code |-> "none",
   requestId |-> NoId, data |-> "none"]

DataBody(d) ==
  [shape |-> "data", fields |-> {}, type |-> "none", code |-> "none",
   requestId |-> NoId, data |-> d]

FullFields == {"message", "type", "code", "details", "requestId"}

(***************************************************************************)
(* http.ServerResponse: a res.json()/res.send() call writes the response   *)
(* if no headers were sent yet; once they were, setHeader throws           *)
(* ERR_HTTP_HEADERS_SENT and nothing reaches the wire.  Every call is      *)
(* recorded with its outcome; `cause` is the failure the writer reports    *)
(* ("success" for a success reply).                                        *)
(***************************************************************************)
HeadersSent(ws) == ws # <<>>

ResJson(ws, by, cause, status, body) ==
  Append(ws, [by |-> by, cause |-> cause, status |-> status, body |-> body,
              sent |-> ~HeadersSent(ws)])

\* log(requestId, type, message, data): one entry; `late` records that a
\* response had already been written when the entry was emitted, `chars`
\* how many characters of the upstream's reply the entry's data holds
LogData(lg, ws, rid, type, chars) ==
  Append(lg, [requestId |-> rid, type |-> type, late |-> HeadersSent(ws),
              chars |-> chars])

\* an entry whose data holds nothing of the upstream's reply
Log(lg, ws, rid, type) == LogData(lg, ws, rid, type, 0)

HasTracking(s) == s \in {"part_000", "part_003"}

Init ==
  /\ server \in Servers
  /\ req \in [path : Paths, body : BodyKinds]
  /\ pc = IF HasTracking(server) THEN "accepted" ELSE "parse"
  /\ nextUuid = 1
  /\ uuids = {}
  /\ headerId = NoId
  /\ handlerId = NoId
  /\ parsed = "unparsed"
  /\ log = <<>>
  /\ resTimer = "unarmed"
  /\ abortTimer = "unarmed"
  /\ aborted = FALSE
  /\ upstream = NoUpstream
  /\ upstreamCalls = <<>>
  /\ writes = <<>>
  /\ unhandled = FALSE
  /\ settled = FALSE
  /\ fn = "none"
  /\ arg = <<>>
  /\ out = <<>>

(***************************************************************************)
(* Middleware shared by part_000 and part_003.                             *)
(***************************************************************************)
\* the request tracking middleware: a fresh id, stored in the header, logged
TrackRequest ==
  /\ pc = "accepted"
  /\ HasTracking(server)
  /\ headerId' = nextUuid
  /\ uuids' = uuids \cup {nextUuid}
  /\ nextUuid' = nextUuid + 1
  /\ log' = Log(log, writes, nextUuid, "REQUEST_START")
  /\ pc' = "timeoutmw"
  /\ UNCHANGED fnVars
  /\ UNCHANGED <<server, req, handlerId, parsed, resTimer, abortTimer, aborted,
                 upstream, upstreamCalls, writes, unhandled, settled>>

\* the timeout middleware: res.setTimeout(TIMEOUT_MS, callback); next()
ArmResponseTimeout ==
  /\ pc = "timeoutmw"
  /\ resTimer' = "armed"
  /\ pc' = "parse"
  /\ UNCHANGED fnVars
  /\ UNCHANGED <<server, req, nextUuid, uuids, headerId, handlerId, parsed, log,
                 abortTimer, aborted, upstream, upstreamCalls, writes, unhandled,
                 settled>>

\* The error body the res.setTimeout callback writes; part_003 adds path and
\* timestamp to the five fields.
ResTimeoutBody(s, rid) ==
  ErrorBody(IF s = "part_003" THEN FullFields \cup {"path", "timestamp"}
                              ELSE FullFields,
            "timeout_error", "timeout_error", rid)

\* The res.setTimeout callback.  Node emits 'timeout' on the response only
\* while the response is the socket's current message, that is until the
\* response has been written; the handler is then suspended in an await.
\* The timer is the socket's idle timer: it is armed before the handler's own
\* timer with the same TIMEOUT_MS, and any later activity of the client on
\* the socket restarts it, so it may expire before or after the handler's.
ResTimerFire ==
  /\ resTimer = "armed"
  /\ pc \in {"await_fetch", "await_json"}
  /\ ~HeadersSent(writes)
  /\ resTimer' = "fired"
  /\ log' = Log(log, writes, headerId, "TIMEOUT")
  /\ writes' = ResJson(writes, "res_timer", "deadline", 504,
                       ResTimeoutBody(server, headerId))
  /\ UNCHANGED fnVars
  /\ UNCHANGED <<server, req, pc, nextUuid, uuids, headerId, handlerId, parsed,
                 abortTimer, aborted, upstream, upstreamCalls, unhandled, settled>>

(***************************************************************************)
(* Body parsers.                                                           *)
(***************************************************************************)
\* JSON.stringify/parse of a body the parser accepted: what req.body holds
ParsedJson(kind) ==
  CASE kind = "messages"   -> "object_messages"
    [] kind = "nomessages" -> "object_nomessages"
    [] OTHER               -> "emptyobject"

\* express.json() of index.js, part_000 and part_001.  A body it cannot parse
\* makes it call next(err) with err.status 400 (413 for an oversize body);
\* none of these servers registers an error middleware, so Express's final
\* handler answers with err.status and an HTML page.  An empty body is {}.
ExpressJson ==
  /\ pc = "parse"
  /\ server \in {"index", "part_000", "part_001"}
  /\ IF req.body \in {"malformed", "oversize"}
       THEN /\ writes' = ResJson(writes, "final_handler",
                                 IF req.body = "malformed" THEN "malformed_json"
                                                           ELSE "oversize",
                                 IF req.body = "malformed" THEN 400 ELSE 413,
                                 HtmlBody)
            /\ pc' = "done"
            /\ UNCHANGED parsed
       ELSE /\ parsed' = ParsedJson(req.body)
            /\ pc' = "handler"
            /\ UNCHANGED writes
  /\ UNCHANGED fnVars
  /\ UNCHANGED <<server, req, nextUuid, uuids, headerId, handlerId, log,
                 resTimer, abortTimer, aborted, upstream, upstreamCalls,
                 unhandled, settled>>

\* The 400 body of the custom JSON parser.
ParseErrorWrite(ws) ==
  ResJson(ws, "json_parser", "malformed_json", 400,
          ErrorBody({"type", "message", "details"}, "parse_error", "none", NoId))

\* a variant of the custom JSON parser that, having answered 400, goes on
\* to the next handler
CustomJsonParserFallsThrough ==
  /\ pc = "parse"
  /\ server = "part_003"
  /\ IF req.body = "malformed"
       THEN /\ writes' = ParseErrorWrite(writes)
            /\ parsed' = "unparsed"
       ELSE /\ parsed' = ParsedJson(req.body)
            /\ UNCHANGED writes
  /\ pc' = "handler"
  /\ UNCHANGED fnVars
  /\ UNCHANGED <<server, req, nextUuid, uuids, headerId, handlerId, log,
                 resTimer, abortTimer, aborted, upstream, upstreamCalls,
                 unhandled, settled>>

\* part_003: bodyParser.text({type: 'application/json'}) followed by the custom
\* JSON parser.  An error of bodyParser.text (oversize) goes to the global
\* error handler, which is registered right after.  Without a body req.body
\* is what the installed body-parser leaves there: a falsy value (passed on
\* as it is), or the placeholder {} of body-parser 1.x, for which
\* JSON.parse throws like for a malformed text.  Otherwise
\* JSON.parse(req.body), and on a SyntaxError the 400 parse_error body.
CustomJsonParser ==
  /\ pc = "parse"
  /\ server = "part_003"
  /\ CASE req.body = "oversize" ->
            /\ writes' = ResJson(writes, "error_handler", "internal", 500,
                                 ErrorBody({"type", "message"}, "internal_error",
                                           "none", NoId))
            /\ pc' = "done"
            /\ UNCHANGED parsed
       [] req.body = "malformed" ->
            /\ writes' = ParseErrorWrite(writes)
            /\ pc' = "done"
            /\ UNCHANGED parsed
       [] req.body = "empty" ->
            \/ /\ parsed' = "emptystring"
               /\ pc' = "handler"
               /\ UNCHANGED writes
            \/ /\ writes' = ParseErrorWrite(writes)
               /\ pc' = "done"
               /\ UNCHANGED parsed
       [] OTHER ->
            /\ parsed' = ParsedJson(req.body)
            /\ pc' = "handler"
            /\ UNCHANGED writes
  /\ UNCHANGED fnVars
  /\ UNCHANGED <<server, req, nextUuid, uuids, headerId, handlerId, log,
                 resTimer, abortTimer, aborted, upstream, upstreamCalls,
                 unhandled, settled>>

(***************************************************************************)
(* part_000: app.post('/openai/v1/*') with the abort timer.                *)
(***************************************************************************)
\* The catch block: an AbortError is logged as TIMEOUT and answered 504
\* timeout_error, anything else is logged as ERROR and answered 500
\* proxy_error.  `cause` is the failure that was thrown.
Catch000(lg, ws, rid, errName, cause) ==
  IF errName = "AbortError"
    THEN [log    |-> Log(lg, ws, rid, "TIMEOUT"),
          writes |-> ResJson(ws, "handler", cause, 504,
                             ErrorBody(FullFields, "timeout_error",
                                       "timeout_error", rid))]
    ELSE [log    |-> Log(lg, ws, rid, "ERROR"),
          writes |-> ResJson(ws, "handler", cause, 500,
                             ErrorBody(FullFields, "proxy_error",
                                       "proxy_error", rid))]

\* from the handler's entry to its first await: requestId is read from the
\* header, OPENAI_REQUEST is logged, the abort timer is armed, fetch is called
Handler000 ==
  /\ pc = "handler"
  /\ server = "part_000"
  /\ handlerId' = headerId
  /\ log' = Log(log, writes, headerId, "OPENAI_REQUEST")
  /\ abortTimer' = "armed"
  /\ upstreamCalls' = Append(upstreamCalls,
                             [url |-> <<"v1", req.path>>, body |-> parsed])
  /\ pc' = "await_fetch"
  /\ UNCHANGED fnVars
  /\ UNCHANGED <<server, req, nextUuid, uuids, headerId, parsed, resTimer,
                 aborted, upstream, writes, unhandled, settled>>

\* fetch resolves with the upstream's response: clearTimeout(timeoutId), then
\* the handler awaits openaiResponse.json()
FetchResolve000 ==
  /\ pc = "await_fetch"
  /\ server = "part_000"
  /\ \E st \in UpstreamStatuses, b \in UpstreamBodies, n \in UpstreamSizes :
        upstream' = [status |-> st, body |-> b, size |-> n]
  /\ settled' = TRUE
  /\ abortTimer' = "cleared"
  /\ pc' = "await_json"
  /\ UNCHANGED fnVars
  /\ UNCHANGED <<server, req, nextUuid, uuids, headerId, handlerId, parsed,
                 log, resTimer, aborted, upstreamCalls, writes, unhandled>>

\* a variant of the catch path that calls fetch once more after a failure
\* instead of answering
FetchRejectRetry000 ==
  /\ pc = "await_fetch"
  /\ server = "part_000"
  /\ Len(upstreamCalls) < 2
  /\ log' = Log(log, writes, handlerId, "ERROR")
  /\ upstreamCalls' = Append(upstreamCalls,
                             [url |-> <<"v1", req.path>>, body |-> parsed])
  /\ UNCHANGED fnVars
  /\ UNCHANGED <<server, req, pc, nextUuid, uuids, headerId, handlerId, parsed,
                 resTimer, abortTimer, aborted, upstream, writes, unhandled,
                 settled>>

\* fetch rejects with a network error (a FetchError): the catch block runs.
\* The abort timer is not cleared on this path.  A res.json() after the
\* headers were sent throws inside the catch block and escapes the handler.
FetchReject000 ==
  /\ pc = "await_fetch"
  /\ server = "part_000"
  /\ LET c == Catch000(log, writes, handlerId, "FetchError", "network")
     IN  /\ log' = c.log
         /\ writes' = c.writes
  /\ unhandled' = (unhandled \/ HeadersSent(writes))
  /\ settled' = TRUE
  /\ pc' = "done"
  /\ UNCHANGED fnVars
  /\ UNCHANGED <<server, req, nextUuid, uuids, headerId, handlerId, parsed,
                 resTimer, abortTimer, aborted, upstream, upstreamCalls>>

\* The abort timer's callback: controller.abort(), then the FETCH_TIMEOUT
\* entry.  A fetch still pending rejects with an AbortError at once and the
\* handler's catch block runs as the next microtask, before any other
\* callback; a fetch that has already rejected is not affected.
AbortTimerFire ==
  /\ abortTimer = "armed"
  /\ abortTimer' = "fired"
  /\ aborted' = TRUE
  /\ LET lg == Log(log, writes, handlerId, "FETCH_TIMEOUT")
     IN  IF pc = "await_fetch"
           THEN LET c == Catch000(lg, writes, handlerId, "AbortError", "deadline")
                IN  /\ log' = c.log
                    /\ writes' = c.writes
                    /\ unhandled' = (unhandled \/ HeadersSent(writes))
                    /\ pc' = "done"
           ELSE /\ log' = lg
                /\ UNCHANGED <<writes, unhandled, pc>>
  /\ UNCHANGED fnVars
  /\ UNCHANGED <<server, req, nextUuid, uuids, headerId, handlerId, parsed,
                 resTimer, upstream, upstreamCalls, settled>>

\* openaiResponse.json() resolves: OPENAI_RESPONSE is logged, with the
\* whole of the data in it (response: data), and the upstream's status and
\* data are written.  If the headers were already sent
\* res.json() throws, the catch block logs ERROR and its own res.json()
\* throws again.
JsonResolve000 ==
  /\ pc = "await_json"
  /\ server = "part_000"
  /\ upstream.body # "notjson"
  /\ LET lg == LogData(log, writes, handlerId, "OPENAI_RESPONSE", upstream.size)
         ws == ResJson(writes, "handler", "success", upstream.status,
                       DataBody(upstream.body))
     IN  IF HeadersSent(writes)
           THEN LET c == Catch000(lg, ws, handlerId, "Error", "headers_sent")
                IN  /\ log' = c.log
                    /\ writes' = c.writes
                    /\ unhandled' = TRUE
           ELSE /\ log' = lg
                /\ writes' = ws
                /\ UNCHANGED unhandled
  /\ pc' = "done"
  /\ UNCHANGED fnVars
  /\ UNCHANGED <<server, req, nextUuid, uuids, headerId, handlerId, parsed,
                 resTimer, abortTimer, aborted, upstream, upstreamCalls, settled>>

\* openaiResponse.json() rejects: the body is not JSON ("invalid-json"), or
\* reading it took longer than the fetch option timeout: TIMEOUT_MS
\* ("body-timeout").  Both are FetchErrors for the catch block.
JsonReject000 ==
  /\ pc = "await_json"
  /\ server = "part_000"
  /\ \E reason \in {"invalid-json", "body-timeout"} :
        /\ reason = "invalid-json" => upstream.body = "notjson"
        /\ LET c == Catch000(log, writes, handlerId, "FetchError",
                             IF reason = "body-timeout" THEN "deadline"
                                                        ELSE "upstream_json")
           IN  /\ log' = c.log
               /\ writes' = c.writes
  /\ unhandled' = (unhandled \/ HeadersSent(writes))
  /\ pc' = "done"
  /\ UNCHANGED fnVars
  /\ UNCHANGED <<server, req, nextUuid, uuids, headerId, handlerId, parsed,
                 resTimer, abortTimer, aborted, upstream, upstreamCalls, settled>>

(***************************************************************************)
(* index.js: app.post('/openai/v1/*'), no timers.                          *)
(***************************************************************************)
\* the catch block: ERROR is logged, 500 proxy_error without a requestId
CatchIndex(lg, ws, rid, cause) ==
  [log    |-> Log(lg, ws, rid, "ERROR"),
   writes |-> ResJson(ws, "handler", cause, 500,
                      ErrorBody({"message", "type", "code", "details"},
                                "proxy_error", "proxy_error", NoId))]

\* requestId = uuidv4(), the REQUEST entry, fetch
HandlerIndex ==
  /\ pc = "handler"
  /\ server = "index"
  /\ handlerId' = nextUuid
  /\ uuids' = uuids \cup {nextUuid}
  /\ nextUuid' = nextUuid + 1
  /\ log' = Log(log, writes, nextUuid, "REQUEST")
  /\ upstreamCalls' = Append(upstreamCalls,
                             [url |-> <<"v1", req.path>>, body |-> parsed])
  /\ pc' = "await_fetch"
  /\ UNCHANGED fnVars
  /\ UNCHANGED <<server, req, headerId, parsed, resTimer, abortTimer, aborted,
                 upstream, writes, unhandled, settled>>

FetchResolveIndex ==
  /\ pc = "await_fetch"
  /\ server = "index"
  /\ \E st \in UpstreamStatuses, b \in UpstreamBodies, n \in UpstreamSizes :
        upstream' = [status |-> st, body |-> b, size |-> n]
  /\ settled' = TRUE
  /\ pc' = "await_json"
  /\ UNCHANGED fnVars
  /\ UNCHANGED <<server, req, nextUuid, uuids, headerId, handlerId, parsed,
                 log, resTimer, abortTimer, aborted, upstreamCalls, writes,
                 unhandled>>

FetchRejectIndex ==
  /\ pc = "await_fetch"
  /\ server = "index"
  /\ LET c == CatchIndex(log, writes, handlerId, "network")
     IN  /\ log' = c.log
         /\ writes' = c.writes
  /\ settled' = TRUE
  /\ pc' = "done"
  /\ UNCHANGED fnVars
  /\ UNCHANGED <<server, req, nextUuid, uuids, headerId, handlerId, parsed,
                 resTimer, abortTimer, aborted, upstream, upstreamCalls,
                 unhandled>>

\* openaiResponse.json() settles: the RESPONSE entry and the upstream's
\* status and data, or the catch block when the body is not JSON.  The
\* entry is printed by console.log, which elides what is nested deeper than
\* two levels: it holds the data's text or not, depending on the data.
JsonSettleIndex ==
  /\ pc = "await_json"
  /\ server = "index"
  /\ IF upstream.body = "notjson"
       THEN LET c == CatchIndex(log, writes, handlerId, "upstream_json")
            IN  /\ log' = c.log
                /\ writes' = c.writes
       ELSE /\ \E n \in {0, upstream.size} :
                  log' = LogData(log, writes, handlerId, "RESPONSE", n)
            /\ writes' = ResJson(writes, "handler", "success", upstream.status,
                                 DataBody(upstream.body))
  /\ pc' = "done"
  /\ UNCHANGED fnVars
  /\ UNCHANGED <<server, req, nextUuid, uuids, headerId, handlerId, parsed,
                 resTimer, abortTimer, aborted, upstream, upstreamCalls,
                 unhandled, settled>>

(***************************************************************************)
(* part_001: app.use('/openai/v1') validating the request and the reply.   *)
(***************************************************************************)
\* !req.body || !Array.isArray(req.body.messages): 400 and return;
\* otherwise fetch
Handler001 ==
  /\ pc = "handler"
  /\ server = "part_001"
  /\ IF parsed # "object_messages"
       THEN /\ writes' = ResJson(writes, "handler", "bad_request", 400, ErrorString)
            /\ pc' = "done"
            /\ UNCHANGED upstreamCalls
       ELSE /\ upstreamCalls' = Append(upstreamCalls,
                                       [url |-> <<"v1", req.path>>,
                                        body |-> parsed])
            /\ pc' = "await_fetch"
            /\ UNCHANGED writes
  /\ UNCHANGED fnVars
  /\ UNCHANGED <<server, req, nextUuid, uuids, headerId, handlerId, parsed,
                 log, resTimer, abortTimer, aborted, upstream, unhandled,
                 settled>>

FetchResolve001 ==
  /\ pc = "await_fetch"
  /\ server = "part_001"
  /\ \E st \in UpstreamStatuses, b \in UpstreamBodies, n \in UpstreamSizes :
        upstream' = [status |-> st, body |-> b, size |-> n]
  /\ settled' = TRUE
  /\ pc' = "await_json"
  /\ UNCHANGED fnVars
  /\ UNCHANGED <<server, req, nextUuid, uuids, headerId, handlerId, parsed,
                 log, resTimer, abortTimer, aborted, upstreamCalls, writes,
                 unhandled>>

FetchReject001 ==
  /\ pc = "await_fetch"
  /\ server = "part_001"
  /\ writes' = ResJson(writes, "handler", "network", 500, ErrorString)
  /\ settled' = TRUE
  /\ pc' = "done"
  /\ UNCHANGED fnVars
  /\ UNCHANGED <<server, req, nextUuid, uuids, headerId, handlerId, parsed,
                 log, resTimer, abortTimer, aborted, upstream, upstreamCalls,
                 unhandled>>

\* openaiResponse.text() resolves; JSON.parse in its own try (text that is
\* not JSON is kept as a string, which has no choices); the reply must have
\* a non-empty choices array, or 500; else the text is sent with the
\* upstream's status
TextResolve001 ==
  /\ pc = "await_json"
  /\ server = "part_001"
  /\ IF upstream.body # "completion"
       THEN writes' = ResJson(writes, "handler", "validation", 500, ErrorString)
       ELSE writes' = ResJson(writes, "handler", "success", upstream.status,
                              DataBody(upstream.body))
  /\ pc' = "done"
  /\ UNCHANGED fnVars
  /\ UNCHANGED <<server, req, nextUuid, uuids, headerId, handlerId, parsed,
                 log, resTimer, abortTimer, aborted, upstream, upstreamCalls,
                 unhandled, settled>>

(***************************************************************************)
(* part_003: app.all('*'), behind the tracking, timeout and parser         *)
(* middleware.                                                             *)
(***************************************************************************)
\* the catch block: 500 with {type: 'internal_error', message}
Catch003(ws, cause) ==
  ResJson(ws, "handler", cause, 500,
          ErrorBody({"type", "message"}, "internal_error", "none", NoId))

\* requestId = uuidv4(); path = req.path, the whole path of the request, so
\* the URL fetched is OPENAI_BASE_URL + '/openai/v1/...'; fetch is called with
\* the body as the parser left it
Handler003 ==
  /\ pc = "handler"
  /\ server = "part_003"
  /\ handlerId' = nextUuid
  /\ uuids' = uuids \cup {nextUuid}
  /\ nextUuid' = nextUuid + 1
  /\ upstreamCalls' = Append(upstreamCalls,
                             [url |-> <<"v1", "openai", "v1", req.path>>,
                              body |-> parsed])
  /\ pc' = "await_fetch"
  /\ UNCHANGED fnVars
  /\ UNCHANGED <<server, req, headerId, parsed, log, resTimer, abortTimer,
                 aborted, upstream, writes, unhandled, settled>>

FetchResolve003 ==
  /\ pc = "await_fetch"
  /\ server = "part_003"
  /\ \E st \in UpstreamStatuses, b \in UpstreamBodies, n \in UpstreamSizes :
        upstream' = [status |-> st, body |-> b, size |-> n]
  /\ settled' = TRUE
  /\ pc' = "await_json"
  /\ UNCHANGED fnVars
  /\ UNCHANGED <<server, req, nextUuid, uuids, headerId, handlerId, parsed,
                 log, resTimer, abortTimer, aborted, upstreamCalls, writes,
                 unhandled>>

\* fetch rejects: a network error, or the fetch option timeout: TIMEOUT_MS
\* expired ("request-timeout"); the catch block answers both alike
FetchReject003 ==
  /\ pc = "await_fetch"
  /\ server = "part_003"
  /\ \E reason \in {"network", "request-timeout"} :
        writes' = Catch003(writes, IF reason = "network" THEN "network"
                                                         ELSE "deadline")
  /\ unhandled' = (unhandled \/ HeadersSent(writes))
  /\ settled' = TRUE
  /\ pc' = "done"
  /\ UNCHANGED fnVars
  /\ UNCHANGED <<server, req, nextUuid, uuids, headerId, handlerId, parsed,
                 log, resTimer, abortTimer, aborted, upstream, upstreamCalls>>

\* response.json() resolves: res.json(data), with the default status 200.
\* If the headers were already sent it throws, and so does the catch block's
\* res.json().
JsonResolve003 ==
  /\ pc = "await_json"
  /\ server = "part_003"
  /\ upstream.body # "notjson"
  /\ LET ws == ResJson(writes, "handler", "success", 200, DataBody(upstream.body))
     IN  IF HeadersSent(writes)
           THEN /\ writes' = Catch003(ws, "headers_sent")
                /\ unhandled' = TRUE
           ELSE /\ writes' = ws
                /\ UNCHANGED unhandled
  /\ pc' = "done"
  /\ UNCHANGED fnVars
  /\ UNCHANGED <<server, req, nextUuid, uuids, headerId, handlerId, parsed,
                 log, resTimer, abortTimer, aborted, upstream, upstreamCalls,
                 settled>>

\* response.json() rejects: the body is not JSON, or the body timed out
JsonReject003 ==
  /\ pc = "await_json"
  /\ server = "part_003"
  /\ \E reason \in {"invalid-json", "body-timeout"} :
        /\ reason = "invalid-json" => upstream.body = "notjson"
        /\ writes' = Catch003(writes, IF reason = "body-timeout"
                                        THEN "deadline" ELSE "upstream_json")
  /\ unhandled' = (unhandled \/ HeadersSent(writes))
  /\ pc' = "done"
  /\ UNCHANGED fnVars
  /\ UNCHANGED <<server, req, nextUuid, uuids, headerId, handlerId, parsed,
                 log, resTimer, abortTimer, aborted, upstream, upstreamCalls,
                 settled>>

Next ==
  \/ TrackRequest
  \/ ArmResponseTimeout
  \/ ResTimerFire
  \/ ExpressJson
  \/ CustomJsonParser
  \/ Handler000
  \/ FetchResolve000
  \/ FetchReject000
  \/ AbortTimerFire
  \/ JsonResolve000
  \/ JsonReject000
  \/ HandlerIndex
  \/ FetchResolveIndex
  \/ FetchRejectIndex
  \/ JsonSettleIndex
  \/ Handler001
  \/ FetchResolve001
  \/ FetchReject001
  \/ TextResolve001
  \/ Handler003
  \/ FetchResolve003
  \/ FetchReject003
  \/ JsonResolve003
  \/ JsonReject003

Spec == Init /\ [][Next]_vars

(***************************************************************************)
(* Text and JSON.  A text is a sequence of tokens: "fence" (the three      *)
(* backquotes of a code fence marker, FENCE in the comments below), "json" *)
(* (the language tag), "ws" (one whitespace character), "{", "}", ",", a   *)
(* member ("a:1", "b:2": a key with its value), "7" (a number), "str" (a   *)
(* string literal in its quotes), "null", and "hello" (a bare word).       *)
(***************************************************************************)
Members == {"a:1", "b:2"}

\* the members of a plan object: a name, a description and the collections
\* days and meals, each either a non-empty array or an empty one ("days:[]")
PlanMembers == {"name", "description", "days", "days:[]", "meals", "meals:[]"}

JsonMembers == Members \cup PlanMembers

IsWs(c) == c = "ws"

\* the number of whitespace tokens s starts with / ends with
RECURSIVE LeadWs(_)
LeadWs(s) == IF s # <<>> /\ IsWs(Head(s)) THEN 1 + LeadWs(Tail(s)) ELSE 0

RECURSIVE TrailWs(_)
TrailWs(s) ==
  IF s # <<>> /\ IsWs(s[Len(s)]) THEN 1 + TrailWs(SubSeq(s, 1, Len(s) - 1)) ELSE 0

DropLeadWs(s) == SubSeq(s, LeadWs(s) + 1, Len(s))
DropTrailWs(s) == SubSeq(s, 1, Len(s) - TrailWs(s))

\* String.prototype.trim
Trim(s) == DropTrailWs(DropLeadWs(s))

\* JSON.stringify of an object given as the sequence of its members
RECURSIVE JoinMembers(_)
JoinMembers(ms) ==
  IF ms = <<>> THEN <<>>
  ELSE IF Len(ms) = 1 THEN ms
  ELSE <<Head(ms), ",">> \o JoinMembers(Tail(ms))

JsonStringify(ms) == <<"{">> \o JoinMembers(ms) \o <<"}">>

\* JSON.parse: whitespace between the tokens is insignificant; the text is a
\* number, a string literal, null, or an object { member, member, ... };
\* anything else is a SyntaxError.  The value is [ok, type, members, error].
Thrown(msg) == [ok |-> FALSE, type |-> "none", members |-> <<>>, error |-> msg]

SyntaxError == Thrown("SyntaxError")

JsonParse(text) ==
  LET t == SelectSeq(text, LAMBDA c : ~IsWs(c))
      n == Len(t)
      inner == SubSeq(t, 2, n - 1)
      k == Len(inner)
  IN  IF t = <<"7">>
        THEN [ok |-> TRUE, type |-> "number", members |-> <<>>, error |-> "none"]
      ELSE IF t = <<"str">>
        THEN [ok |-> TRUE, type |-> "string", members |-> <<>>, error |-> "none"]
      ELSE IF t = <<"null">>
        THEN [ok |-> TRUE, type |-> "null", members |-> <<>>, error |-> "none"]
      ELSE IF n >= 2 /\ t[1] = "{" /\ t[n] = "}"
                /\ (k = 0 \/ k % 2 = 1)
                /\ \A i \in 1..k : IF i % 2 = 1 THEN inner[i] \in JsonMembers
                                                ELSE inner[i] = ","
        THEN [ok |-> TRUE, type |-> "object",
              members |-> SelectSeq(inner, LAMBDA c : c \in JsonMembers),
              error |-> "none"]
        ELSE SyntaxError

(***************************************************************************)
(* part_003: cleanOpenAIResponse, the response sanitizer.                  *)
(***************************************************************************)
\* .replace(/^FENCEjson\s*/i, '')
StripJsonFence(s) ==
  IF Len(s) >= 2 /\ s[1] = "fence" /\ s[2] = "json"
    THEN DropLeadWs(SubSeq(s, 3, Len(s))) ELSE s

\* .replace(/^FENCE\s*/i, '')
StripFence(s) ==
  IF Len(s) >= 1 /\ s[1] = "fence" THEN DropLeadWs(Tail(s)) ELSE s

\* .replace(/\s*FENCE$/, '')
StripEndFence(s) ==
  IF Len(s) >= 1 /\ s[Len(s)] = "fence"
    THEN DropTrailWs(SubSeq(s, 1, Len(s) - 1)) ELSE s

\* .replace(/^\s*{\s*/, '{')
CleanStart(s) ==
  LET r == DropLeadWs(s)
  IN  IF r # <<>> /\ Head(r) = "{" THEN <<"{">> \o DropLeadWs(Tail(r)) ELSE s

\* .replace(/\s*}\s*$/, '}')
CleanEnd(s) ==
  LET r == DropTrailWs(s)
  IN  IF r # <<>> /\ r[Len(r)] = "}"
        THEN DropTrailWs(SubSeq(r, 1, Len(r) - 1)) \o <<"}">> ELSE s

\* the chain of replacements, in the order of the source, trim() last
Cleaned(rawResponse) ==
  Trim(CleanEnd(CleanStart(StripEndFence(StripFence(StripJsonFence(rawResponse))))))

\* The paths the helper functions are applied to, and path.includes(marker).
\* The last two name a plan under the chat route: the only kind of path
\* that contains both markers.
LibPaths == {"chat/completions", "workout-plan", "meal-plan",
             "chat/completions/workout-plan", "chat/completions/meal-plan"}

Includes(path, marker) ==
  \/ path = marker
  \/ path = "chat/completions/workout-plan"
       /\ marker \in {"chat/completions", "workout-plan"}
  \/ path = "chat/completions/meal-plan"
       /\ marker \in {"chat/completions", "meal-plan"}

\* cleanOpenAIResponse(rawResponse, path) for a string rawResponse: the value
\* parsed, or what it throws: JSON.parse's SyntaxError under the chat route,
\* and otherwise, when the cleaned text does not parse either, its own Error
cleanOpenAIResponse(rawResponse, path) ==
  IF Includes(path, "chat/completions") THEN JsonParse(rawResponse)
  ELSE IF JsonParse(rawResponse).ok THEN JsonParse(rawResponse)
  ELSE IF JsonParse(Cleaned(rawResponse)).ok THEN JsonParse(Cleaned(rawResponse))
  ELSE Thrown("Failed to clean and parse OpenAI response")

(***************************************************************************)
(* part_003: validateResponseStructure, the response validator.            *)
(* A response is [id, choices]; id is a string ("absent" when the field is *)
(* missing); choices is [tag, items] with tag "absent", "string" (a value  *)
(* that is no array) or "array"; a choice is [message]; a message is       *)
(* [tag, role, content] with tag "absent" or "object"; a content is        *)
(* [tag, text, members]: "absent", a "string" with its text, or an         *)
(* "object" with its members.                                              *)
(***************************************************************************)
\* !v for a string-valued field: a missing field and '' are falsy
FalsyString(v) == v \in {"absent", ""}

\* !content
FalsyContent(c) == c.tag = "absent" \/ (c.tag = "string" /\ c.text = <<>>)

\* the key of a member
MemberKey(m) ==
  CASE m = "a:1" -> "a"
    [] m = "b:2" -> "b"
    [] m = "days:[]" -> "days"
    [] m = "meals:[]" -> "meals"
    [] OTHER -> m

\* !parsed[key] for a parsed object: the members here all hold truthy values
\* (an empty array is truthy)
MissingField(ms, key) == \A i \in DOMAIN ms : MemberKey(ms[i]) # key

Valid == [ok |-> TRUE, error |-> "none"]
Invalid(msg) == [ok |-> FALSE, error |-> msg]

\* the plan check of one choice (lines 92-100): the content as an object, or
\* JSON.parse of it; name, description and days are required
PlanCheck(content) ==
  LET plan == IF content.tag = "object"
                THEN [ok |-> TRUE, type |-> "object",
                      members |-> content.members, error |-> "none"]
                ELSE JsonParse(content.text)
  IN  IF ~plan.ok THEN Invalid("Invalid plan format")
      ELSE IF \/ MissingField(plan.members, "name")
              \/ MissingField(plan.members, "description")
              \/ MissingField(plan.members, "days")
        THEN Invalid("Invalid plan format")
        ELSE Valid

\* the check of one choice (lines 86-101)
ChoiceCheck(choice, path) ==
  IF \/ choice.message.tag = "absent"
     \/ FalsyContent(choice.message.content)
     \/ FalsyString(choice.message.role)
    THEN Invalid("message missing required fields")
    ELSE IF Includes(path, "workout-plan") \/ Includes(path, "meal-plan")
      THEN PlanCheck(choice.message.content)
      ELSE Valid

\* for (const choice of response.choices): the first choice that fails throws
RECURSIVE CheckChoices(_, _)
CheckChoices(items, path) ==
  IF items = <<>> THEN Valid
  ELSE IF ~ChoiceCheck(Head(items), path).ok THEN ChoiceCheck(Head(items), path)
  ELSE CheckChoices(Tail(items), path)

\* validateResponseStructure(response, path): Valid when it returns true,
\* Invalid(message) when it throws
validateResponseStructure(response, path) ==
  IF Includes(path, "chat/completions")
    THEN IF \/ FalsyString(response.id)
            \/ response.choices.tag = "absent"
            \/ response.choices.tag # "array"
           THEN Invalid("missing required fields for chat completion")
           ELSE CheckChoices(response.choices.items, path)
    ELSE Valid

(***************************************************************************)
(* part_003: safeJsonParse, the sanitizer and the validator in sequence.   *)
(***************************************************************************)
\* text.substring(0, MAX_LOG_LENGTH) of a text of `size` characters: the
\* number of characters kept
Substring(size) == IF size < MAX_LOG_LENGTH THEN size ELSE MAX_LOG_LENGTH

\* a parsed object as validateResponseStructure reads it: no member of the
\* objects here is an id or a choices field
ResponseFromObject(ms) ==
  [id |-> "absent", choices |-> [tag |-> "absent", items |-> <<>>]]

\* what the try block of lines 114-125 throws ("none" when it returns)
SafeParseFailure(text, path) ==
  LET cleaned == cleanOpenAIResponse(text, path)
  IN  IF ~cleaned.ok THEN cleaned.error
      ELSE IF cleaned.type # "object"
        THEN "Parsed response is not a valid object"
      ELSE validateResponseStructure(ResponseFromObject(cleaned.members),
                                     path).error

\* safeJsonParse(text, requestId, path) for a text [tokens, size], size its
\* length in characters: the value returned or thrown, and the entries it
\* logs.  An empty text throws before the try.  In the catch block the arguments of
\* log() are evaluated first, and among them
\* cleanOpenAIResponse(text, path).substring(0, MAX_LOG_LENGTH): the second
\* call throws again what the first threw, or returns a value, and only a
\* string has a substring method (a TypeError otherwise).  So the
\* JSON_PARSE_ERROR entry, with the excerpt of the original text, and the
\* Error of line 133 are reached only for a text that parses to a string.
safeJsonParse(text, requestId, path) ==
  LET cleaned == cleanOpenAIResponse(text.tokens, path)
      quiet(r) == [result |-> r, log |-> <<>>]
  IN  IF text.tokens = <<>>
        THEN quiet(Thrown("Empty response received from OpenAI"))
      ELSE IF SafeParseFailure(text.tokens, path) = "none" THEN quiet(cleaned)
      ELSE IF ~cleaned.ok THEN quiet(cleaned)
      ELSE IF cleaned.type # "string" THEN quiet(Thrown("TypeError"))
      ELSE [result |-> Thrown("Invalid JSON format returned from OpenAI"),
            log    |-> LogData(<<>>, <<>>, requestId, "JSON_PARSE_ERROR",
                               Substring(text.size))]

(***************************************************************************)
(* part_003: convertToChatCompletion and transformResponse, the endpoint   *)
(* translator.  A content may also be null (tag "null") or a number (tag   *)
(* "number").                                                              *)
(***************************************************************************)
\* path.split('/').pop()
LastSegment(path) ==
  CASE path = "chat/completions" -> "completions"
    [] path = "chat/completions/workout-plan" -> "workout-plan"
    [] path = "chat/completions/meal-plan" -> "meal-plan"
    [] OTHER -> path

\* the keys of SPECIAL_PROMPTS
SpecialEndpoints == {"workout-plan", "meal-plan"}

\* SPECIAL_PROMPTS[endpoint].system and .user(prompt): the fixed system text
\* of the endpoint, and the endpoint's template with the prompt put in
SystemPrompt(endpoint) == <<"system", endpoint>>
UserPrompt(endpoint, prompt) == <<"user", endpoint, prompt>>

DefaultPrompt == "Create a general plan"
DefaultMaxTokens == 2000

\* A request body as the translator reads it: [prompt, max_tokens], a prompt
\* [tag, text] and a max_tokens [tag, value], tag "absent" for a missing
\* field.  v || d yields d for every falsy v: a missing field, '' and 0.
PromptOr(prompt, d) ==
  IF prompt.tag = "absent" \/ prompt.text = "" THEN d ELSE prompt.text

MaxTokensOr(max_tokens, d) ==
  IF max_tokens.tag = "absent" \/ max_tokens.value = 0 THEN d
  ELSE max_tokens.value

\* convertToChatCompletion(path, body)
convertToChatCompletion(path, body) ==
  IF LastSegment(path) \notin SpecialEndpoints
    THEN [path |-> path, body |-> body]
    ELSE [path |-> "chat/completions",
          body |-> [model |-> "gpt-3.5-turbo",
                    messages |->
                      <<[role |-> "system",
                         content |-> SystemPrompt(LastSegment(path))],
                        [role |-> "user",
                         content |-> UserPrompt(LastSegment(path),
                                                PromptOr(body.prompt,
                                                         DefaultPrompt))]>>,
                    temperature |-> "0.7",
                    max_tokens |-> MaxTokensOr(body.max_tokens,
                                               DefaultMaxTokens),
                    response_format |-> [type |-> "json_object"]]]

\* a value the translator returns: a JSON value [type, members], or the
\* response it was given (type "envelope")
Returned(type, members) ==
  [ok |-> TRUE, type |-> type, members |-> members, error |-> "none"]

\* a variant of line 275 that returns a string content as it is, unparsed
ContentUnparsed(content) ==
  CASE content.tag = "object" -> Returned("object", content.members)
    [] content.tag = "null"   -> Returned("null", <<>>)
    [] content.tag = "number" -> Returned("number", <<>>)
    [] content.tag = "string" -> Returned("string", <<>>)
    [] OTHER -> Thrown("Failed to parse special endpoint response")

\* typeof content === 'object' ? content : JSON.parse(content), inside the
\* try of lines 273-278: null is an object for typeof; JSON.parse of
\* undefined throws, JSON.parse of a number gives the number; whatever is
\* thrown is rethrown as the Error of line 277
ContentValue(content) ==
  CASE content.tag = "object" -> Returned("object", content.members)
    [] content.tag = "null"   -> Returned("null", <<>>)
    [] content.tag = "number" -> Returned("number", <<>>)
    [] content.tag = "string" ->
         IF JsonParse(content.text).ok
           THEN JsonParse(content.text)
           ELSE Thrown("Failed to parse special endpoint response")
    [] OTHER -> Thrown("Failed to parse special endpoint response")

\* transformResponse(path, response).  Without a special prompt for the
\* path's last segment, without choices or without a first choice the
\* response itself is returned.  A choices value that is a non-empty string
\* has a first character as choices[0], whose message is undefined, and so
\* has a first choice without a message: reading .content throws a TypeError
\* inside the try.
transformResponse(path, response) ==
  IF \/ LastSegment(path) \notin SpecialEndpoints
     \/ response.choices.tag = "absent"
     \/ (response.choices.tag = "array" /\ response.choices.items = <<>>)
    THEN Returned("envelope", <<>>)
  ELSE IF response.choices.tag # "array"
    THEN Thrown("Failed to parse special endpoint response")
  ELSE IF response.choices.items[1].message.tag = "absent"
    THEN Thrown("Failed to parse special endpoint response")
  ELSE ContentValue(response.choices.items[1].message.content)

(***************************************************************************)
(* The helper functions of part_003 applied to arguments drawn from        *)
(* bounded sets.  (The servers' handlers never call them.)                 *)
(***************************************************************************)
\* the longest run of whitespace put around a fence
MaxPad == 1
\* the most choices a response holds
MaxChoices == 2

\* sequences of n distinct members
RECURSIVE DistinctSeqs(_)
DistinctSeqs(n) ==
  IF n = 0 THEN {<<>>}
  ELSE {Append(ms, m) : ms \in DistinctSeqs(n - 1), m \in Members}
         \ {ms \in [1..n -> Members] : \E i, j \in 1..n : i # j /\ ms[i] = ms[j]}

\* the objects: every sequence of distinct members
Objects == UNION {DistinctSeqs(n) : n \in 0..Cardinality(Members)}

\* n whitespace characters
Ws(n) == [i \in 1..n |-> "ws"]

\* the text of an object wrapped in a code fence: whitespace, the opening
\* fence with or without the tag json, whitespace, the text, whitespace, the
\* closing fence, whitespace
FenceWrap(text, lead, tagged, in1, in2, trail) ==
  Ws(lead) \o <<"fence">> \o (IF tagged THEN <<"json">> ELSE <<>>) \o Ws(in1)
    \o text \o Ws(in2) \o <<"fence">> \o Ws(trail)

CleanArgs ==
  {[obj |-> o, lead |-> l, trail |-> t, path |-> p,
    text |-> FenceWrap(JsonStringify(o), l, tg, i1, i2, t)] :
      o \in Objects, l \in 0..MaxPad, t \in 0..MaxPad, tg \in BOOLEAN,
      i1 \in 0..MaxPad, i2 \in 0..MaxPad, p \in LibPaths \ {"chat/completions"}}

Contents ==
  {[tag |-> "absent", text |-> <<>>, members |-> <<>>],
   [tag |-> "string", text |-> <<>>, members |-> <<>>],
   [tag |-> "string", text |-> <<"hello">>, members |-> <<>>]}

Messages ==
  {[tag |-> "absent", role |-> "absent",
    content |-> [tag |-> "absent", text |-> <<>>, members |-> <<>>]]}
    \cup [tag : {"object"}, role : {"absent", "assistant"}, content : Contents]

Choices == [message : Messages]

ChoiceSeqs == UNION {[1..n -> Choices] : n \in 0..MaxChoices}

Responses ==
  [id : {"absent", "", "chatcmpl-1"},
   choices : {[tag |-> "absent", items |-> <<>>], [tag |-> "string", items |-> <<>>]}
               \cup [tag : {"array"}, items : ChoiceSeqs]]

ValidateArgs == [response : Responses, path : LibPaths]

\* a content that embeds the object o: the object itself, or its JSON text
EmbeddedContent(o, encoding) ==
  IF encoding = "structured"
    THEN [tag |-> "object", text |-> <<>>, members |-> o]
    ELSE [tag |-> "string", text |-> JsonStringify(o), members |-> <<>>]

\* contents that embed no object
OtherContents ==
  {[tag |-> "absent", text |-> <<>>, members |-> <<>>],
   [tag |-> "null", text |-> <<>>, members |-> <<>>],
   [tag |-> "number", text |-> <<>>, members |-> <<>>]}
    \cup [tag : {"string"},
          text : {<<>>, <<"hello">>, <<"7">>, <<"str">>, <<"null">>},
          members : {<<>>}]

AssistantMessage(content) ==
  [tag |-> "object", role |-> "assistant", content |-> content]

\* an upstream reply whose first choice holds `content`, followed by `extra`
\* further choices with a content of their own
Reply(content, extra) ==
  [id |-> "chatcmpl-1",
   choices |-> [tag |-> "array",
                items |-> <<[message |-> AssistantMessage(content)]>>
                            \o [i \in 1..extra |->
                                  [message |-> AssistantMessage(
                                     [tag |-> "string", text |-> <<"hello">>,
                                      members |-> <<>>])]]]]

\* replies without a usable first choice
ChoicelessReplies ==
  {[id |-> "chatcmpl-1", choices |-> [tag |-> t, items |-> <<>>]] :
      t \in {"absent", "string", "array"}}
    \cup {[id |-> "chatcmpl-1",
           choices |-> [tag |-> "array",
                        items |-> <<[message |->
                                       [tag |-> "absent", role |-> "absent",
                                        content |-> [tag |-> "absent",
                                                     text |-> <<>>,
                                                     members |-> <<>>]]]>>]]}

TransformArgs ==
  {[path |-> p, response |-> Reply(EmbeddedContent(o, e), x), obj |-> o,
    encoding |-> e] :
      p \in LibPaths, o \in Objects, e \in {"structured", "text"},
      x \in 0..(MaxChoices - 1)}
    \cup {[path |-> p, response |-> r, obj |-> <<>>, encoding |-> "none"] :
            p \in LibPaths,
            r \in ChoicelessReplies \cup {Reply(c, 0) : c \in OtherContents}}

\* A plan as the upstream may return it: with or without a name and a
\* description, and each collection "absent", "empty" or "nonempty".
CollectionStates == {"absent", "empty", "nonempty"}

CollectionMember(key, state) ==
  CASE state = "absent" -> <<>>
    [] state = "empty" -> <<IF key = "days" THEN "days:[]" ELSE "meals:[]">>
    [] OTHER -> <<key>>

PlanObject(plan) ==
  (IF plan.name THEN <<"name">> ELSE <<>>)
    \o (IF plan.description THEN <<"description">> ELSE <<>>)
    \o CollectionMember("days", plan.days)
    \o CollectionMember("meals", plan.meals)

Plans == [name : BOOLEAN, description : BOOLEAN, days : CollectionStates,
          meals : CollectionStates]

\* the validator applied to a reply whose one choice holds a plan
PlanArgs ==
  {[response |-> Reply(EmbeddedContent(PlanObject(pl), e), 0), path |-> p,
    plan |-> pl] :
      pl \in Plans, e \in {"structured", "text"},
      p \in LibPaths \ {"chat/completions"}}

\* the texts safeJsonParse is applied to: nothing, a bare word, a number, a
\* string, null, a fenced bare word, and the objects, bare or fenced, with
\* and without whitespace before the fence
SafeParseTokens ==
  {<<>>, <<"hello">>, <<"7">>, <<"str">>, <<"null">>,
   <<"fence", "hello", "fence">>}
    \cup {JsonStringify(o) : o \in Objects}
    \cup {FenceWrap(JsonStringify(o), l, tg, 0, 0, 0) :
            o \in Objects, l \in 0..MaxPad, tg \in BOOLEAN}

SafeParseArgs ==
  {[text |-> [tokens |-> t, size |-> IF t = <<>> THEN 0 ELSE n],
    requestId |-> 1, path |-> p] :
      t \in SafeParseTokens, n \in UpstreamSizes, p \in LibPaths}

\* the largest max_tokens a caller asks for
MaxTokens == 2

ConvertBodies ==
  [prompt : {[tag |-> "absent", text |-> ""], [tag |-> "string", text |-> ""],
             [tag |-> "string", text |-> "3-day beginner plan"]},
   max_tokens : {[tag |-> "absent", value |-> 0]}
                  \cup [tag : {"number"}, value : 0..MaxTokens]]

ConvertArgs == [path : LibPaths, body : ConvertBodies]

InitFn ==
  /\ server = "part_003"
  /\ req = [path |-> "chat/completions", body |-> "empty"]
  /\ pc = "lib"
  /\ nextUuid = 1
  /\ uuids = {}
  /\ headerId = NoId
  /\ handlerId = NoId
  /\ parsed = "unparsed"
  /\ log = <<>>
  /\ resTimer = "unarmed"
  /\ abortTimer = "unarmed"
  /\ aborted = FALSE
  /\ upstream = NoUpstream
  /\ upstreamCalls = <<>>
  /\ writes = <<>>
  /\ unhandled = FALSE
  /\ settled = FALSE
  /\ \/ fn = "cleanOpenAIResponse" /\ arg \in CleanArgs
     \/ fn = "validateResponseStructure" /\ arg \in ValidateArgs \cup PlanArgs
     \/ fn = "transformResponse" /\ arg \in TransformArgs
     \/ fn = "convertToChatCompletion" /\ arg \in ConvertArgs
     \/ fn = "safeJsonParse" /\ arg \in SafeParseArgs
  /\ out = <<>>

ApplyClean ==
  /\ fn = "cleanOpenAIResponse"
  /\ out = <<>>
  /\ out' = <<cleanOpenAIResponse(arg.text, arg.path)>>
  /\ UNCHANGED <<fn, arg>>
  /\ UNCHANGED reqVars

ApplyValidate ==
  /\ fn = "validateResponseStructure"
  /\ out = <<>>
  /\ out' = <<validateResponseStructure(arg.response, arg.path)>>
  /\ UNCHANGED <<fn, arg>>
  /\ UNCHANGED reqVars

ApplyTransform ==
  /\ fn = "transformResponse"
  /\ out = <<>>
  /\ out' = <<transformResponse(arg.path, arg.response)>>
  /\ UNCHANGED <<fn, arg>>
  /\ UNCHANGED reqVars

ApplyConvert ==
  /\ fn = "convertToChatCompletion"
  /\ out = <<>>
  /\ out' = <<convertToChatCompletion(arg.path, arg.body)>>
  /\ UNCHANGED <<fn, arg>>
  /\ UNCHANGED reqVars

ApplySafeJsonParse ==
  /\ fn = "safeJsonParse"
  /\ out = <<>>
  /\ LET r == safeJsonParse(arg.text, arg.requestId, arg.path)
     IN  /\ out' = <<r.result>>
         /\ log' = log \o r.log
  /\ UNCHANGED <<fn, arg>>
  /\ UNCHANGED <<server, req, pc, nextUuid, uuids, headerId, handlerId, parsed,
                 resTimer, abortTimer, aborted, upstream, upstreamCalls, writes,
                 unhandled, settled>>

NextFn ==
  \/ ApplyClean
  \/ ApplyValidate
  \/ ApplyTransform
  \/ ApplyConvert
  \/ ApplySafeJsonParse

SpecFn == InitFn /\ [][NextFn]_vars

(***************************************************************************)
(* The claims.                                                             *)
(***************************************************************************)
ErrorTypes == {"parse_error", "timeout_error", "proxy_error",
               "translation_error", "validation_error", "internal_error"}

\* the identity assigned when the request was accepted: the first one generated
AcceptedId == IF uuids = {} THEN NoId
              ELSE CHOOSE u \in uuids : \A v \in uuids : u <= v

\* the response writes by which the servers' own code reports a failure
\* (Express's final handler is not among them)
ErrorWrites ==
  {i \in DOMAIN writes :
     writes[i].cause # "success" /\ writes[i].by # "final_handler"}

\* C1: for every request, over every interleaving of upstream success,
\* failure, abort and the two deadline timers, exactly one response is
\* written: never a second res.json() once one was written, and a finished
\* request has its response.
C1_ExactlyOneResponse ==
  /\ Len(writes) <= 1
  /\ pc = "done" => Len(writes) = 1

\* C2: if the upstream call never resolves by itself, then once a deadline
\* timer has expired the request has its one response, 504 with error.type
\* timeout_error, and nothing that happens afterwards writes a further one.
C2_TimeoutAnsweredOnce ==
  (~settled /\ (resTimer = "fired" \/ abortTimer = "fired")) =>
     /\ Len(writes) = 1
     /\ writes[1].status = 504
     /\ writes[1].body.shape = "error"
     /\ writes[1].body.type = "timeout_error"

\* C3: the loser of the race between the deadline and the upstream call is
\* discarded: once a response was written, no log entry is emitted and no
\* response write is attempted for the request.
C3_LoserDiscarded ==
  /\ \A i \in DOMAIN log : ~log[i].late
  /\ \A i \in DOMAIN writes : writes[i].sent

\* C4: a request whose body is not valid JSON is answered with status 400
\* and an error body whose error.type is parse_error.
C4_MalformedJsonParseError ==
  (req.body = "malformed" /\ pc = "done") =>
     /\ Len(writes) = 1
     /\ writes[1].status = 400
     /\ writes[1].body.shape = "error"
     /\ writes[1].body.type = "parse_error"

\* C5: every error response, from any path, has a body {error: {message,
\* type, code, details, requestId}} with type one of the six error types,
\* code equal to type and a requestId.
C5_ErrorBodyShape ==
  \A i \in ErrorWrites :
     /\ writes[i].body.shape = "error"
     /\ FullFields \subseteq writes[i].body.fields
     /\ writes[i].body.type \in ErrorTypes
     /\ writes[i].body.code = writes[i].body.type
     /\ writes[i].body.requestId # NoId

\* C6: the status of an error response follows the kind of the failure: 400
\* for malformed inbound JSON (with error.type parse_error), 504 for an
\* exceeded deadline, whether the response timer, the abort or the upstream
\* call's own timeout detected it (with timeout_error), 500 for proxy,
\* translation, validation and internal failures.
C6_StatusByFailureKind ==
  \A i \in ErrorWrites :
     LET w == writes[i]
     IN  /\ w.cause = "malformed_json" =>
              w.status = 400 /\ w.body.type = "parse_error"
         /\ w.cause = "deadline" =>
              w.status = 504 /\ w.body.type = "timeout_error"
         /\ w.cause \in {"network", "upstream_json", "validation", "internal",
                         "headers_sent"} => w.status = 500

\* C7: within one request every log entry and every body that holds a
\* requestId carry the one identity assigned when the request was accepted,
\* and no second identity is generated for the request.
C7_OneRequestId ==
  /\ Cardinality(uuids) <= 1
  /\ \A i \in DOMAIN log : log[i].requestId = AcceptedId
  /\ \A i \in DOMAIN writes :
        "requestId" \in writes[i].body.fields =>
           writes[i].body.requestId = AcceptedId

\* C8: on a successful canonical chat-completion exchange the status written
\* equals the upstream's status, whatever it is, and the body is the
\* upstream's JSON object; on a successful specialized exchange (part_003)
\* the status is 200.
C8_StatusMirrorsUpstream ==
  \A i \in DOMAIN writes :
     (writes[i].cause = "success" /\ writes[i].sent) =>
        IF req.path = "chat/completions"
          THEN /\ writes[i].status = upstream.status
               /\ writes[i].body = DataBody(upstream.body)
          ELSE server = "part_003" => writes[i].status = 200

\* a minimal well-formed chat-completion body: an id and one choice whose
\* message has a role and a content
MinimalResponse ==
  [id |-> "chatcmpl-1",
   choices |-> [tag |-> "array",
                items |-> <<[message |->
                               [tag |-> "object", role |-> "assistant",
                                content |-> [tag |-> "string",
                                             text |-> <<"hello">>,
                                             members |-> <<>>]]]>>]]

\* C9: applied to a chat-completion body the validator rejects every body
\* whose choices are missing, no array or empty, and accepts the minimal
\* well-formed body.
C9_ValidatorRejectsEmptyChoices ==
  (fn = "validateResponseStructure" /\ out # <<>>
     /\ arg.path = "chat/completions") =>
     /\ (arg.response.choices.tag # "array"
           \/ arg.response.choices.items = <<>>) => ~out[1].ok
     /\ arg.response = MinimalResponse => out[1].ok

\* C10: for every object O, the sanitizer applied to the text of O wrapped
\* in a code fence (with or without the tag json), with whitespace before
\* the opening fence and after the closing fence, returns O.
C10_SanitizerRoundTrip ==
  (fn = "cleanOpenAIResponse" /\ out # <<>>
     /\ ~Includes(arg.path, "chat/completions")) =>
     /\ out[1].ok
     /\ out[1].type = "object"
     /\ out[1].members = arg.obj

\* C11: for a specialized endpoint and an upstream reply whose first choice
\* embeds an object O, as a structured object or as the JSON text of O, the
\* backward translation returns exactly O in both cases, and nothing of
\* the chat-completion envelope.
C11_TranslatorComposition ==
  (fn = "transformResponse" /\ out # <<>>
     /\ LastSegment(arg.path) \in SpecialEndpoints
     /\ arg.encoding # "none") =>
     /\ out[1].ok
     /\ out[1].type = "object"
     /\ out[1].members = arg.obj

C11_Witness ==
  /\ fn = "transformResponse"
  /\ out # <<>>
  /\ arg.path = "meal-plan"
  /\ arg.encoding = "text"
  /\ arg.obj = <<"b:2", "a:1">>
  /\ Len(arg.response.choices.items) = 2
  /\ out[1].ok
  /\ out[1].members = arg.obj

\* the URL of the upstream's canonical chat-completion route
CanonicalUrl == <<"v1", "chat/completions">>

\* C12: a POST to /openai/v1/workout-plan with a prompt, answered by the
\* upstream with a completion, ends with one response of status 200 whose
\* body is the plan object taken out of the first choice, not the
\* chat-completion envelope, and the upstream was called on its canonical
\* chat/completions route, not on the specialized path.
C12_EndToEndWorkoutPlan ==
  (server = "part_003" /\ req.path = "workout-plan" /\ req.body = "nomessages"
     /\ upstream.body = "completion" /\ resTimer # "fired" /\ pc = "done") =>
     /\ Len(upstreamCalls) = 1
     /\ upstreamCalls[1].url = CanonicalUrl
     /\ Len(writes) = 1
     /\ writes[1].status = 200
     /\ writes[1].body.shape = "data"
     /\ writes[1].body.data # upstream.body

\* C13: a request to the chat-completions route whose body has no messages
\* array is answered 400 and no upstream call is issued for it; a request
\* with a messages array is forwarded to the upstream with its body
\* unchanged.
C13_MessagesRequired ==
  req.path = "chat/completions" =>
     /\ req.body \in {"nomessages", "empty"} =>
           /\ upstreamCalls = <<>>
           /\ pc = "done" => (Len(writes) = 1 /\ writes[1].status = 400)
     /\ (req.body = "messages" /\ pc \in {"await_fetch", "await_json", "done"}) =>
           /\ Len(upstreamCalls) = 1
           /\ upstreamCalls[1].body = ParsedJson("messages")

\* C14: when the upstream call fails with a non-abort error before the
\* deadline (the first response written reports the network failure), the
\* request's deadline timer never fires afterwards: no abort, no
\* FETCH_TIMEOUT or TIMEOUT log entry, no 504 write; and the single response
\* reports proxy_error.
C14_TimerCancelledOnFailure ==
  (server = "part_000" /\ writes # <<>> /\ writes[1].cause = "network") =>
     /\ abortTimer # "fired"
     /\ ~aborted
     /\ \A i \in DOMAIN log : log[i].type \notin {"FETCH_TIMEOUT", "TIMEOUT"}
     /\ Len(writes) = 1
     /\ writes[1].status = 500
     /\ writes[1].body.type = "proxy_error"

\* C15: one deadline governs the whole exchange.  The client-facing timer
\* never reports the deadline passed while the upstream abort timer has
\* been cancelled, and an exchange during which the deadline fired (while
\* waiting for the upstream's response or reading its body) ends by the
\* abort: the handler leaves through the AbortError branch.
C15_SingleDeadline ==
  server = "part_000" =>
     /\ ~(resTimer = "fired" /\ abortTimer = "cleared")
     /\ (resTimer = "fired" /\ pc = "done") =>
           /\ aborted
           /\ \E i \in DOMAIN writes :
                 /\ writes[i].by = "handler"
                 /\ writes[i].cause = "deadline"
                 /\ writes[i].status = 504

\* data = await response.json(): the reply a body of each kind parses to, as
\* the validator sees it
ResponseOf(body) ==
  CASE body = "completion" -> MinimalResponse
    [] body = "nochoices" ->
         [id |-> "chatcmpl-1", choices |-> [tag |-> "array", items |-> <<>>]]
    [] OTHER ->
         [id |-> "absent", choices |-> [tag |-> "absent", items |-> <<>>]]

\* C16: the stages of a request run in the order received, translating,
\* calling-upstream, sanitizing, validating, translating-back, responded,
\* none skipped: the upstream is called on the translated (canonical)
\* route, a success response is written only for a reply that passes the
\* validator, and on a specialized endpoint only after the backward
\* translation took the domain object out of the envelope.
C16_StageOrder ==
  server = "part_003" =>
     /\ \A i \in DOMAIN upstreamCalls : upstreamCalls[i].url = CanonicalUrl
     /\ \A i \in DOMAIN writes :
           writes[i].cause = "success" =>
              /\ upstream.body # "notjson"
              /\ validateResponseStructure(ResponseOf(upstream.body),
                                           "chat/completions").ok
              /\ req.path \in SpecialEndpoints =>
                    writes[i].body.data # upstream.body

\* C17: every failure in the handler, including one raised while it writes
\* its response after the deadline path has already responded, is caught
\* at the handler's boundary: no exception or rejected promise escapes it.
C17_NoEscapingFault == ~unhandled

\* C18: at most one upstream call is issued for a request: after an
\* upstream failure, an abort or an expired deadline no second call is
\* made.
C18_SingleUpstreamCall == Len(upstreamCalls) <= 1

C18_Witness ==
  /\ server = "part_000"
  /\ pc = "done"
  /\ resTimer = "fired"
  /\ abortTimer = "fired"
  /\ \E i \in DOMAIN writes : writes[i].cause = "network"
  /\ Len(upstreamCalls) = 1

\* C19: the forward translation returns path and body unchanged for a path
\* whose last segment has no translation rule; for workout-plan and
\* meal-plan it returns the path chat/completions and a body with exactly
\* two messages (the rule's system prompt, then the rule's user template
\* applied to body.prompt, or to the default text when the prompt is
\* absent), temperature 0.7, the JSON response-format hint, and max_tokens
\* equal to the caller's max_tokens when the caller supplied one and 2000
\* otherwise.
C19_ForwardTranslation ==
  (fn = "convertToChatCompletion" /\ out # <<>>) =>
     IF LastSegment(arg.path) \notin SpecialEndpoints
       THEN /\ out[1].path = arg.path
            /\ out[1].body = arg.body
       ELSE /\ out[1].path = "chat/completions"
            /\ Len(out[1].body.messages) = 2
            /\ out[1].body.messages[1] =
                  [role |-> "system",
                   content |-> SystemPrompt(LastSegment(arg.path))]
            /\ out[1].body.messages[2] =
                  [role |-> "user",
                   content |-> UserPrompt(LastSegment(arg.path),
                                          IF arg.body.prompt.tag = "absent"
                                            THEN DefaultPrompt
                                            ELSE arg.body.prompt.text)]
            /\ out[1].body.temperature = "0.7"
            /\ out[1].body.response_format.type = "json_object"
            /\ out[1].body.max_tokens =
                  IF arg.body.max_tokens.tag = "absent"
                    THEN DefaultMaxTokens
                    ELSE arg.body.max_tokens.value

\* C20: for a specialized endpoint the backward translation fails whenever
\* the reply has no choice (choices missing or empty) or its first choice's
\* content is no object (text that does not parse, or that parses to a
\* number, a string or null); what it returns is never the envelope nor a
\* value that is no object.
C20_BackwardTranslationFails ==
  (fn = "transformResponse" /\ out # <<>>
     /\ LastSegment(arg.path) \in SpecialEndpoints) =>
     /\ arg.encoding = "none" => ~out[1].ok
     /\ out[1].ok => out[1].type = "object"

\* the collection field of a specialized endpoint
CollectionOf(endpoint) == IF endpoint = "meal-plan" THEN "meals" ELSE "days"

\* C21: for a specialized response the validator accepts exactly the plans
\* that have a name, a description and a non-empty collection of their own
\* endpoint, days for workout-plan and meals for meal-plan: a meal plan
\* with non-empty meals and no days is accepted, a plan whose own
\* collection is missing or empty is rejected.
C21_PlanValidatorPerEndpoint ==
  (fn = "validateResponseStructure" /\ out # <<>> /\ "plan" \in DOMAIN arg) =>
     (out[1].ok <=>
        /\ arg.plan.name
        /\ arg.plan.description
        /\ arg.plan[CollectionOf(LastSegment(arg.path))] = "nonempty")

\* C22: when neither the direct parse nor the fence-stripped parse of the
\* upstream text succeeds, safeJsonParse fails with the parse error
\* 'Invalid JSON format returned from OpenAI' and reports, in its
\* JSON_PARSE_ERROR entry, an excerpt of the original text of at most 1000
\* characters; and no log entry of any server ever holds more than 1000
\* characters of upstream text.
C22_BoundedExcerpt ==
  /\ (fn = "safeJsonParse" /\ out # <<>> /\ arg.text.tokens # <<>>
        /\ ~JsonParse(arg.text.tokens).ok
        /\ ~JsonParse(Cleaned(arg.text.tokens)).ok) =>
        /\ ~out[1].ok
        /\ out[1].error = "Invalid JSON format returned from OpenAI"
        /\ \E i \in DOMAIN log :
              /\ log[i].type = "JSON_PARSE_ERROR"
              /\ log[i].chars = Substring(arg.text.size)
  /\ \A i \in DOMAIN log : log[i].chars <= MAX_LOG_LENGTH

\* C23: when the inbound body fails JSON parsing the request stops at the
\* parser middleware: the 400 response is its only effect, the proxy handler
\* never runs (no handler identity, no handler log entry, no abort timer)
\* and no upstream call is issued.
C23_ParseFailureStopsAtParser ==
  (\E i \in DOMAIN writes : writes[i].cause = "malformed_json") =>
     /\ pc = "done"
     /\ Len(writes) = 1
     /\ writes[1].status = 400
     /\ writes[1].sent
     /\ upstreamCalls = <<>>
     /\ upstream = NoUpstream
     /\ handlerId = NoId
     /\ \A i \in DOMAIN log : log[i].type = "REQUEST_START"
     /\ abortTimer = "unarmed"
     /\ resTimer # "fired"
     /\ ~unhandled

C23_Witness ==
  /\ server = "part_003"
  /\ req.body = "malformed"
  /\ pc = "done"
  /\ Len(writes) = 1
  /\ writes[1].by = "json_parser"
  /\ writes[1].status = 400
  /\ upstreamCalls = <<>>

====
